---- MODULE Spec2Model ----
(***************************************************************************)
(* Model of gradio/components/checkbox.py: the Checkbox component.         *)
(*                                                                         *)
(* A Python value is a record [dflt, tag, v]:                              *)
(*   dflt  TRUE when the value is wrapped in a Default(...) object         *)
(*   tag   "bool" | "none" | "int" | "float" | "str" | "callable"          *)
(*   v     payload (bool: 0/1, none: 0, numbers: the number, str: 0 for    *)
(*         the empty string and an identity otherwise, callable: an        *)
(*         identity)                                                       *)
(***************************************************************************)
EXTENDS Integers, Sequences, FiniteSets, TLC

VARIABLES pc, given, forwarded, baseCalls, op, args, heap, retNeighbors, retScores

vars == <<pc, given, forwarded, baseCalls, op, args, heap, retNeighbors, retScores>>

\* ---- bounds ------------------------------------------------------------
MaxSupplied == 2      \* at most this many constructor arguments are passed explicitly
MaxScoresLen == 1     \* length of the scores list handed to get_interpretation_scores

\* ---- Python values -----------------------------------------------------
PyVal(t, n) == [dflt |-> FALSE, tag |-> t, v |-> n]
PyNone == PyVal("none", 0)
PyTrue == PyVal("bool", 1)
PyFalse == PyVal("bool", 0)
PyBool(b) == IF b THEN PyTrue ELSE PyFalse
PyInt(n) == PyVal("int", n)
PyFloat(n) == PyVal("float", n)
PyStr(i) == PyVal("str", i)
PyCallable(i) == PyVal("callable", i)

\* Default(value): the "use default" sentinel object wrapping a value
Default(x) == [x EXCEPT !.dflt = TRUE]
IsDefault(x) == x.dflt

\* Python truth value of an object, as tested by `if x:` and `not x`
Truthy(x) ==
    CASE x.dflt -> TRUE
      [] x.tag = "none" -> FALSE
      [] x.tag \in {"bool", "int", "float", "str"} -> x.v # 0
      [] OTHER -> TRUE

PyNot(x) == PyBool(~Truthy(x))

\* ---- the constructor signature ----------------------------------------
Params == {"value", "label", "info", "every", "show_label", "container", "scale",
           "min_width", "interactive", "visible", "elem_id", "elem_classes"}

MinWidthDefault == 160

\* the default each parameter is declared with
DeclaredDefault ==
    [p \in Params |->
        CASE p = "value" -> Default(PyFalse)
          [] p = "container" -> Default(PyTrue)
          [] p = "min_width" -> Default(PyInt(MinWidthDefault))
          [] p = "visible" -> Default(PyTrue)
          [] OTHER -> Default(PyNone)]

\* keywords outside the signature, collected by **kwargs
ExtraKeys == {"foo"}

Keys == Params \cup ExtraKeys

\* explicit values a caller may pass for each keyword; a Default object may
\* itself be passed
Explicit ==
    [p \in Keys |->
        CASE p = "value" -> {PyTrue, PyFalse, PyNone, PyCallable(1), Default(PyTrue)}
          [] p = "label" -> {PyNone, PyStr(1), Default(PyNone)}
          [] p = "info" -> {PyNone}
          [] p = "every" -> {PyNone, PyFloat(5), Default(PyFloat(5))}
          [] p = "show_label" -> {PyNone}
          [] p = "container" -> {PyNone, PyFalse}
          [] p = "scale" -> {PyNone, PyInt(2)}
          [] p = "min_width" -> {PyNone, PyInt(0)}
          [] p = "interactive" -> {PyNone}
          [] p = "visible" -> {PyNone, PyFalse, Default(PyFalse)}
          [] p = "elem_id" -> {PyStr(3)}
          [] p = "elem_classes" -> {PyStr(4)}
          [] OTHER -> {PyInt(1)}]

NoArgs == [p \in {} |-> PyNone]

Extend(f, p, x) == [q \in (DOMAIN f) \cup {p} |-> IF q = p THEN x ELSE f[q]]

RECURSIVE Assignments(_)
Assignments(D) ==
    IF D = {} THEN {NoArgs}
    ELSE LET p == CHOOSE q \in D : TRUE
         IN {Extend(f, p, x) : f \in Assignments(D \ {p}), x \in Explicit[p]}

\* the keyword arguments of one constructor call
Supplied ==
    UNION {Assignments(D) : D \in {S \in SUBSET Keys : Cardinality(S) <= MaxSupplied}}

\* Python binds an omitted parameter to its declared default and keeps the
\* keywords outside the signature (**kwargs)
Bind(supplied) ==
    [p \in Params \cup DOMAIN supplied |->
        IF p \in DOMAIN supplied THEN supplied[p] ELSE DeclaredDefault[p]]

\* gradio.blocks.get: a Default object yields the value it wraps, anything
\* else is returned as it is
get(x) == IF IsDefault(x) THEN [x EXCEPT !.dflt = FALSE] ELSE x

\* the parameters Checkbox.__init__ passes through get()
Resolved == {"value", "container", "scale", "min_width", "visible"}

\* faulty variants of Checkbox.__init__
\* visible is forwarded without get()
Checkbox__init__VisibleUnresolved(bound) ==
    [p \in DOMAIN bound |-> IF p \in Resolved \ {"visible"} THEN get(bound[p]) ELSE bound[p]]

\* value is forwarded without get()
Checkbox__init__ValueUnresolved(bound) ==
    [p \in DOMAIN bound |-> IF p \in Resolved \ {"value"} THEN get(bound[p]) ELSE bound[p]]

\* value = get(container): the wrong variable is resolved into value
Checkbox__init__ValueFromContainer(bound) ==
    [p \in DOMAIN bound |->
        IF p = "value" THEN get(bound["container"])
        ELSE IF p \in Resolved THEN get(bound[p]) ELSE bound[p]]

\* value is always the declared default, whatever was passed
Checkbox__init__ValueIgnored(bound) ==
    [p \in DOMAIN bound |->
        IF p = "value" THEN get(DeclaredDefault[p])
        ELSE IF p \in Resolved THEN get(bound[p]) ELSE bound[p]]

\* an explicit None is replaced by the declared default
Checkbox__init__NoneIsDefault(bound) ==
    [p \in DOMAIN bound |->
        IF p \in Resolved
        THEN (IF get(bound[p]) = PyNone THEN get(DeclaredDefault[p]) ELSE get(bound[p]))
        ELSE bound[p]]

\* Checkbox.__init__: the keyword arguments handed to IOComponent.__init__,
\* the named ones and **kwargs
Checkbox__init__(bound) ==
    [p \in DOMAIN bound |-> IF p \in Resolved THEN get(bound[p]) ELSE bound[p]]

\* ---- interpretation ----------------------------------------------------
EmptyDict == {}

\* faulty variant: the neighbor is x itself, the negation is forgotten
get_interpretation_neighbors_NoNegation(self, x) ==
    [ret |-> <<(<<PyBool(Truthy(x))>>), EmptyDict>>, self |-> self]

\* get_interpretation_neighbors: the returned tuple and the instance afterwards
get_interpretation_neighbors(self, x) ==
    [ret |-> <<(<<PyNot(x)>>), EmptyDict>>, self |-> self]

\* faulty variant: the two branches are exchanged
get_interpretation_scores_Swapped(self, x, neighbors, scores) ==
    [raised |-> IF Len(scores) = 0 THEN "IndexError" ELSE "",
     ret |-> IF Len(scores) = 0 THEN <<>>
             ELSE IF Truthy(x) THEN <<PyNone, scores[1]>>
             ELSE <<scores[1], PyNone>>,
     self |-> self,
     neighbors |-> neighbors,
     scores |-> scores]

\* faulty variant: the true branch fills both slots
get_interpretation_scores_BothSlots(self, x, neighbors, scores) ==
    [raised |-> IF Len(scores) = 0 THEN "IndexError" ELSE "",
     ret |-> IF Len(scores) = 0 THEN <<>>
             ELSE IF Truthy(x) THEN <<scores[1], scores[1]>>
             ELSE <<PyNone, scores[1]>>,
     self |-> self,
     neighbors |-> neighbors,
     scores |-> scores]

\* faulty variant: the score is taken with scores.pop(0), which empties the
\* caller's list
get_interpretation_scores_Pop(self, x, neighbors, scores) ==
    [raised |-> IF Len(scores) = 0 THEN "IndexError" ELSE "",
     ret |-> IF Len(scores) = 0 THEN <<>>
             ELSE IF Truthy(x) THEN <<scores[1], PyNone>>
             ELSE <<PyNone, scores[1]>>,
     self |-> self,
     neighbors |-> neighbors,
     scores |-> IF Len(scores) = 0 THEN scores ELSE Tail(scores)]

\* get_interpretation_scores: the returned tuple (or the exception raised by
\* scores[0]) and the instance and argument lists afterwards
get_interpretation_scores(self, x, neighbors, scores) ==
    [raised |-> IF Len(scores) = 0 THEN "IndexError" ELSE "",
     ret |-> IF Len(scores) = 0 THEN <<>>
             ELSE IF Truthy(x) THEN <<scores[1], PyNone>>
             ELSE <<PyNone, scores[1]>>,
     self |-> self,
     neighbors |-> neighbors,
     scores |-> scores]

\* ---- inputs of the interpretation calls --------------------------------
\* original values: the two booleans, None, a truthy number and the empty string
XVals == {PyTrue, PyFalse, PyNone, PyInt(1), PyStr(0)}
\* scores are opaque to the component: a number and None
ScoreVals == {PyFloat(1), PyNone}
ScoreLists == UNION {[1..n -> ScoreVals] : n \in 0..MaxScoresLen}
NeighborLists == {<<PyTrue>>, <<PyFalse>>}

NoCall == [x |-> PyNone, neighbors |-> <<>>, scores |-> <<>>]

\* ---- the state machine -------------------------------------------------
Init ==
    /\ pc = "declared"
    /\ given = NoArgs
    /\ forwarded = NoArgs
    /\ baseCalls = <<>>
    /\ op = "none"
    /\ args = NoCall
    /\ heap = NoCall
    /\ retNeighbors = <<>>
    /\ retScores = [raised |-> "", ret |-> <<>>]

Construct ==
    /\ pc = "declared"
    /\ \E supplied \in Supplied :
        /\ given' = supplied
        /\ forwarded' = Checkbox__init__(Bind(supplied))
    /\ baseCalls' = <<"IOComponent.__init__", "NeighborInterpretable.__init__">>
    /\ pc' = "constructed"
    /\ UNCHANGED <<op, args, heap, retNeighbors, retScores>>

GetInterpretationNeighbors ==
    /\ pc = "constructed"
    /\ \E x \in XVals :
        LET out == get_interpretation_neighbors(forwarded, x)
        IN /\ args' = [NoCall EXCEPT !.x = x]
           /\ heap' = [NoCall EXCEPT !.x = x]
           /\ retNeighbors' = out.ret
           /\ forwarded' = out.self
    /\ op' = "neighbors"
    /\ retScores' = [raised |-> "", ret |-> <<>>]
    /\ UNCHANGED <<pc, given, baseCalls>>

GetInterpretationScores ==
    /\ pc = "constructed"
    /\ \E x \in XVals, nb \in NeighborLists, sc \in ScoreLists :
        LET out == get_interpretation_scores(forwarded, x, nb, sc)
        IN /\ args' = [x |-> x, neighbors |-> nb, scores |-> sc]
           /\ heap' = [x |-> x, neighbors |-> out.neighbors, scores |-> out.scores]
           /\ retScores' = [raised |-> out.raised, ret |-> out.ret]
           /\ forwarded' = out.self
    /\ op' = "scores"
    /\ retNeighbors' = <<>>
    /\ UNCHANGED <<pc, given, baseCalls>>

Next == Construct \/ GetInterpretationNeighbors \/ GetInterpretationScores

Spec == Init /\ [][Next]_vars

\* ---- properties --------------------------------------------------------
Constructed == pc = "constructed"
Bools == {PyTrue, PyFalse}
ScoredOne == op = "scores" /\ Len(args.scores) = 1
Omitted(p) == p \notin DOMAIN given

\* C1 as stated: for a boolean x and scores [s] the result is (None, s) when
\* x is True and (s, None) when x is False.
C1_AsStated ==
    (ScoredOne /\ args.x \in Bools) =>
        retScores.ret = IF args.x = PyTrue THEN <<PyNone, args.scores[1]>>
                        ELSE <<args.scores[1], PyNone>>

\* C1 amended: for a boolean x and scores [s] the result is (s, None) when
\* x is True and (None, s) when x is False.
C1_ScoresMapping ==
    (ScoredOne /\ args.x \in Bools) =>
        /\ retScores.raised = ""
        /\ retScores.ret = IF args.x = PyTrue THEN <<args.scores[1], PyNone>>
                           ELSE <<PyNone, args.scores[1]>>

C1_Witness ==
    /\ ScoredOne
    /\ args.x = PyTrue
    /\ args.scores = <<PyFloat(1)>>
    /\ retScores.ret = <<PyFloat(1), PyNone>>

\* C2: for a boolean x, get_interpretation_neighbors(x) returns the list with
\* the single element not x, together with an empty metadata mapping.
C2_NeighborIsNegation ==
    (op = "neighbors" /\ args.x \in Bools) =>
        /\ Len(retNeighbors) = 2
        /\ retNeighbors[1] = IF args.x = PyTrue THEN <<PyFalse>> ELSE <<PyTrue>>
        /\ retNeighbors[2] = {}

C2_Witness ==
    /\ op = "neighbors"
    /\ args.x = PyTrue
    /\ retNeighbors[1] = <<PyFalse>>

\* C3: when the neighbors passed to get_interpretation_scores are those of
\* get_interpretation_neighbors(x), the populated slot of the result is the
\* one indexed by the neighbor value: the first slot if the neighbor is False,
\* the second if it is True.
C3_SlotIndexedByNeighbor ==
    (/\ ScoredOne
     /\ args.x \in Bools
     /\ args.scores[1] # PyNone
     /\ args.neighbors = get_interpretation_neighbors(forwarded, args.x).ret[1]) =>
        LET nb == args.neighbors[1]
            s == args.scores[1]
        IN /\ nb \in Bools
           /\ nb = PyFalse => (retScores.ret[1] = s /\ retScores.ret[2] = PyNone)
           /\ nb = PyTrue => (retScores.ret[2] = s /\ retScores.ret[1] = PyNone)

C3_Witness ==
    /\ ScoredOne
    /\ args.x = PyFalse
    /\ args.neighbors = <<PyTrue>>
    /\ args.scores = <<PyFloat(1)>>
    /\ retScores.ret[2] = PyFloat(1)

\* C4: for scores [s] with s not None exactly one slot of the result is s and
\* the other is None, and the populated slot is fixed by the truth value of x
\* alone.
C4_ExactlyOneSlot ==
    (ScoredOne /\ args.scores[1] # PyNone) =>
        LET s == args.scores[1]
            r == retScores.ret
        IN /\ Len(r) = 2
           /\ \/ (r[1] = s /\ r[2] = PyNone)
              \/ (r[1] = PyNone /\ r[2] = s)
           /\ (r[1] = s) <=> Truthy(args.x)

C4_Witness ==
    /\ ScoredOne
    /\ args.x = PyStr(0)
    /\ args.scores = <<PyFloat(1)>>
    /\ retScores.ret = <<PyNone, PyFloat(1)>>

\* C5 as stated: no argument handed to IOComponent.__init__ is a Default
\* object.
C5_AsStated ==
    Constructed => \A p \in Params : ~IsDefault(forwarded[p])

\* C5 amended: value, container, scale, min_width and visible are never
\* handed to IOComponent.__init__ as a Default object; each of the other
\* seven parameters is handed over as a Default object exactly when it was
\* omitted or a Default object was passed for it.
C5_ResolvedSubset ==
    Constructed =>
        /\ \A p \in {"value", "container", "scale", "min_width", "visible"} :
               ~IsDefault(forwarded[p])
        /\ \A p \in {"label", "info", "every", "show_label", "interactive",
                     "elem_id", "elem_classes"} :
               IsDefault(forwarded[p]) <=> (Omitted(p) \/ IsDefault(given[p]))

C5_Witness ==
    /\ Constructed
    /\ Omitted("visible") /\ forwarded["visible"] = PyTrue
    /\ Omitted("label") /\ IsDefault(forwarded["label"])
    /\ ~Omitted("info") /\ ~IsDefault(forwarded["info"])

\* C6 as stated: the value forwarded for storage is always a boolean.
C6_AsStated ==
    Constructed => (forwarded["value"].tag = "bool" /\ ~IsDefault(forwarded["value"]))

\* C6 amended: the value forwarded for storage is never a Default object; it
\* is a boolean when a boolean (bare or wrapped in a Default object) was
\* passed or value was omitted, and a callable or an explicit None is
\* forwarded as it was passed.
C6_ValueNeverSentinel ==
    Constructed =>
        /\ ~IsDefault(forwarded["value"])
        /\ (Omitted("value") \/ given["value"].tag = "bool")
               => forwarded["value"].tag = "bool"
        /\ (/\ ~Omitted("value")
            /\ ~IsDefault(given["value"])
            /\ given["value"].tag \in {"callable", "none"})
               => forwarded["value"] = given["value"]

C6_Witness ==
    /\ Constructed
    /\ ~Omitted("value")
    /\ given["value"] = PyCallable(1)
    /\ forwarded["value"] = PyCallable(1)

\* C7 as stated: with value (and every) omitted, value is forwarded as False
\* and every as the concrete None.
C7_AsStated ==
    (Constructed /\ Omitted("value") /\ Omitted("every")) =>
        (forwarded["value"] = PyFalse /\ forwarded["every"] = PyNone)

\* C7 amended: with value (and every) omitted, value is forwarded as False,
\* and every is forwarded as the unresolved Default object wrapping None.
C7_DefaultValueFalse ==
    (Constructed /\ Omitted("value") /\ Omitted("every")) =>
        (forwarded["value"] = PyFalse /\ forwarded["every"] = Default(PyNone))

C7_Witness ==
    /\ Constructed
    /\ given = NoArgs
    /\ forwarded["value"] = PyFalse
    /\ forwarded["every"].dflt /\ forwarded["every"].tag = "none"

\* C8: constructing with an explicit boolean forwards that same boolean as
\* the value.
C8_RoundTrip ==
    (Constructed /\ ~Omitted("value") /\ given["value"] \in Bools) =>
        forwarded["value"] = given["value"]

C8_Witness ==
    /\ Constructed
    /\ ~Omitted("value")
    /\ given["value"] = PyTrue
    /\ forwarded["value"] = PyTrue

\* C9: an omitted value, container, scale, min_width or visible is forwarded
\* as its declared default (False, True, None, 160, True); an explicit None
\* is forwarded as None; and what is forwarded for a parameter is fixed by
\* what was passed for that parameter alone (the argument itself, unwrapped
\* for these five when it is a Default object).
C9_IndependentDefaults ==
    Constructed =>
        /\ Omitted("value") => forwarded["value"] = PyFalse
        /\ Omitted("container") => forwarded["container"] = PyTrue
        /\ Omitted("scale") => forwarded["scale"] = PyNone
        /\ Omitted("min_width") => forwarded["min_width"] = PyInt(160)
        /\ Omitted("visible") => forwarded["visible"] = PyTrue
        /\ \A p \in Params : (~Omitted(p) /\ given[p] = PyNone) => forwarded[p] = PyNone
        /\ \A p \in DOMAIN given :
               forwarded[p] =
                   IF p \in {"value", "container", "scale", "min_width", "visible"}
                   THEN [given[p] EXCEPT !.dflt = FALSE]
                   ELSE given[p]
        /\ \A p \in Params \ {"value", "container", "scale", "min_width", "visible"} :
               Omitted(p) => forwarded[p] = Default(PyNone)

C9_Witness ==
    /\ Constructed
    /\ ~Omitted("min_width") /\ given["min_width"] = PyNone
    /\ forwarded["min_width"] = PyNone
    /\ Omitted("container") /\ forwarded["container"] = PyTrue
    /\ ~Omitted("value")

\* C10: a call of get_interpretation_neighbors or get_interpretation_scores
\* leaves what the instance holds and the lists passed to it as they were,
\* and its result is the one a fresh instance gives for the same arguments.
C10_CallsKeepState ==
    [][Constructed =>
        /\ forwarded' = forwarded
        /\ given' = given
        /\ heap' = args'
        /\ op' = "scores" =>
              LET fresh == get_interpretation_scores(NoArgs, args'.x, args'.neighbors,
                                                     args'.scores)
              IN retScores' = [raised |-> fresh.raised, ret |-> fresh.ret]
        /\ op' = "neighbors" =>
              retNeighbors' = get_interpretation_neighbors(NoArgs, args'.x).ret]_vars

C10_Witness ==
    /\ op = "scores"
    /\ args.scores = <<PyFloat(1)>>
    /\ args.neighbors = <<PyTrue>>
    /\ heap = args
    /\ retScores.raised = ""

====
